---- MODULE Spec2Model ----
(***************************************************************************)
(* Heartbeat audio-reactive LED controller (src/src/heartbeat.py).         *)
(*                                                                         *)
(* Floating-point quantities are kept in fixed point:                      *)
(*   energies      in units of 1/EScale      (1.0  = EScale)               *)
(*   brightness    in units of 1/BScale %    (97 % = 97 * BScale)          *)
(*   time          in microseconds                                         *)
(* Products and quotients round towards zero, as \div does on naturals.    *)
(***************************************************************************)
EXTENDS Integers, Sequences, FiniteSets, TLC

\* ------------------------------------------------------------------------
\* Units
\* ------------------------------------------------------------------------
EScale == 100000
BScale == 100
Micro  == 1000000

\* ------------------------------------------------------------------------
\* Program constants (heartbeat.py, lines 73-84 and the literals of the
\* methods)
\* ------------------------------------------------------------------------
MAX_BRIGHTNESS    == 9750                 \* 97.5 %
MIN_BRIGHTNESS    == 0
SAMPLE_RATE       == 44100
CHUNK_SIZE        == 1024
SMOOTHING_NUM     == 7                    \* SMOOTHING_FACTOR = 0.7 = 7/10
SMOOTHING_DEN     == 10
BEAT_THRESHOLD    == 115                  \* 1.15, in hundredths
BEAT_DECAY        == 88                   \* 0.88, in hundredths
MIN_BEAT_INTERVAL == 250000               \* 0.25 s
HEARTBEAT_MIN     == 40 * BScale
HEARTBEAT_MAX     == 97 * BScale
HISTORY_LEN       == 50                   \* "keep last 50 samples"
HISTORY_MIN       == 10                   \* median used when len > 10
RMS_FULL_SCALE    == 10000                \* rms / 10000.0
FADE_STEP         == 5                    \* range(..., -1, -5)
FADE_DELAY        == 20000                \* time.sleep(0.02)

\* time.sleep(CHUNK_SIZE / SAMPLE_RATE): the pacing sleep of one chunk
ChunkSleep == (CHUNK_SIZE * Micro) \div SAMPLE_RATE

\* ------------------------------------------------------------------------
\* Bounds of the model
\* ------------------------------------------------------------------------
MaxCalls        == 12   \* detect_beat calls made by its call harness
MaxAnalyzeCalls == 4    \* analyze_audio_chunk calls made by its call harness
MaxChunkLen     == 2    \* samples per chunk given to analyze_audio_chunk
ChunkSamples    == 2    \* samples per chunk of a track (stands for CHUNK_SIZE)
MaxLead         == 11   \* silent chunks before the loud ones of a short track
MaxBurst        == 2    \* loud chunks of a short track
MaxLoops        == 2    \* passes over the track in loop mode

\* ------------------------------------------------------------------------
\* Arithmetic helpers
\* ------------------------------------------------------------------------
Min(a, b) == IF a < b THEN a ELSE b
Max(a, b) == IF a > b THEN a ELSE b
Range(s)  == {s[k] : k \in 1..Len(s)}

\* k-th smallest element of the non-empty sequence s (1 <= k <= Len(s))
Kth(s, k) ==
  CHOOSE v \in Range(s) :
    /\ Cardinality({j \in 1..Len(s) : s[j] < v}) < k
    /\ k <= Cardinality({j \in 1..Len(s) : s[j] <= v})

\* np.median, doubled so that it stays an integer: the middle element twice
\* for an odd length, the sum of the two middle elements for an even one.
Median2(s) ==
  IF Len(s) % 2 = 1
  THEN 2 * Kth(s, (Len(s) + 1) \div 2)
  ELSE Kth(s, Len(s) \div 2) + Kth(s, Len(s) \div 2 + 1)

\* ------------------------------------------------------------------------
\* detect_beat (lines 217-251)
\* ------------------------------------------------------------------------
\* the history update dropping the newest sample beyond 50, not the oldest
PushHistoryKeepOldest(h, e) ==
  LET a == Append(h, e)
  IN  IF Len(a) > HISTORY_LEN THEN SubSeq(a, 1, HISTORY_LEN) ELSE a

\* lines 225-227: append, then drop the oldest sample beyond 50
PushHistory(h, e) ==
  LET a == Append(h, e)
  IN  IF Len(a) > HISTORY_LEN THEN Tail(a) ELSE a

\* the threshold test without the calibrated guard of lines 239-241
ThresholdMetUnguarded(h, e, cal, maxE) ==
  e * 200 > Median2(h) * BEAT_THRESHOLD

\* the threshold test with >= in the place of > (lines 237 and 241)
ThresholdMetOrEqual(h, e, cal, maxE) ==
  /\ e * 200 >= Median2(h) * BEAT_THRESHOLD
  /\ CASE cal = "unset" -> TRUE
       [] cal = "nan"   -> FALSE
       [] OTHER         -> 2 * e >= maxE

\* line 237 and lines 239-241; cal is the calibration state
\* ("unset": no audio_max_energy attribute; "nan": the attribute is NaN,
\* every comparison with it is False)
ThresholdMet(h, e, cal, maxE) ==
  /\ e * 200 > Median2(h) * BEAT_THRESHOLD
  /\ CASE cal = "unset" -> TRUE
       [] cal = "nan"   -> FALSE
       [] OTHER         -> 2 * e > maxE

\* line 244: the refractory test
RefractoryIgnored(current_time, last) == TRUE
Refractory(current_time, last) == current_time - last > MIN_BEAT_INTERVAL

\* lines 230-246, h being the history after the append
IsBeat(h, e, cal, maxE, current_time, last) ==
  IF Len(h) > HISTORY_MIN
  THEN ThresholdMet(h, e, cal, maxE) /\ Refractory(current_time, last)
  ELSE FALSE

\* ------------------------------------------------------------------------
\* analyze_audio_chunk (lines 188-215); a chunk is a sequence of int16
\* samples
\* ------------------------------------------------------------------------
RECURSIVE SumSq(_)
SumSq(c) == IF c = <<>> THEN 0 ELSE Head(c) * Head(c) + SumSq(Tail(c))

RECURSIVE IsqrtIter(_, _, _)
IsqrtIter(n, lo, hi) ==
  IF lo >= hi THEN lo
  ELSE LET mid == (lo + hi + 1) \div 2
       IN  IF mid * mid <= n THEN IsqrtIter(n, mid, hi)
                             ELSE IsqrtIter(n, lo, mid - 1)

\* np.sqrt, rounded down; 46340 is the largest root of a 31-bit square
Isqrt(n) == IsqrtIter(n, 0, 46340)

\* the RMS of the chunk without the min of line 208
NormalizedEnergyUnclamped(c) ==
  LET mean_square == SumSq(c) \div Len(c)
      rms         == Isqrt(mean_square)
  IN  (rms * EScale) \div RMS_FULL_SCALE

\* lines 199-209 (and 332-336): RMS of the chunk, normalised to [0, 1]
NormalizedEnergy(c) ==
  LET mean_square == SumSq(c) \div Len(c)
      rms         == Isqrt(mean_square)
  IN  (Min(rms, RMS_FULL_SCALE) * EScale) \div RMS_FULL_SCALE

\* lines 212-213: one-pole smoothing
Smooth(prev, normalized_energy) ==
  (SMOOTHING_NUM * prev + (SMOOTHING_DEN - SMOOTHING_NUM) * normalized_energy)
    \div SMOOTHING_DEN

\* lines 195-196: what the empty chunk returns
EmptyChunkResult(prev) == 0

\* the whole method: the value returned and the smoothing state left behind
\* (the mean_square < 0 / NaN branch of line 202 cannot be taken on int16
\* samples)
AnalyzeResult(prev, c) ==
  IF Len(c) = 0
  THEN [ret |-> EmptyChunkResult(prev), smoothed |-> prev]
  ELSE LET s == Smooth(prev, NormalizedEnergy(c))
       IN  [ret |-> s, smoothed |-> s]

\* ------------------------------------------------------------------------
\* update_leds (lines 253-296)
\* ------------------------------------------------------------------------
\* the mapped baseline with the zero range mapped to the bottom of the
\* brightness range instead of its midpoint (line 269)
MappedBrightnessNoMidpoint(e, cal, lo, hi) ==
  LET span == HEARTBEAT_MAX - HEARTBEAT_MIN
  IN  CASE cal = "unset" -> HEARTBEAT_MIN + (e * span) \div EScale
        [] cal = "nan"   -> HEARTBEAT_MIN
        [] OTHER ->
             LET audio_range == hi - lo
             IN  IF audio_range > 0
                 THEN HEARTBEAT_MIN
                        + (Max(0, Min(audio_range, e - lo)) * span) \div audio_range
                 ELSE HEARTBEAT_MIN

\* lines 262-275: the mapped baseline
MappedBrightness(e, cal, lo, hi) ==
  LET span == HEARTBEAT_MAX - HEARTBEAT_MIN
  IN  CASE cal = "unset" -> HEARTBEAT_MIN + (e * span) \div EScale
        [] cal = "nan"   -> HEARTBEAT_MIN + span \div 2
        [] OTHER ->
             LET audio_range == hi - lo
             IN  IF audio_range > 0
                 THEN HEARTBEAT_MIN
                        + (Max(0, Min(audio_range, e - lo)) * span) \div audio_range
                 ELSE HEARTBEAT_MIN + span \div 2

\* lines 283-284
DecayNone(b) == b
Decay(b) == (b * BEAT_DECAY) \div 100

\* lines 291-292
Clamp(b) == Max(HEARTBEAT_MIN, Min(HEARTBEAT_MAX, b))

\* lines 277-292 for one channel
BrightnessDecayOnly(b, mapped, beat) ==
  IF beat THEN HEARTBEAT_MAX ELSE Decay(b)
BrightnessNoFlash(b, mapped, beat) ==
  Clamp(Max(Decay(b), mapped))
\* the baseline alone on a non-beat chunk, the previous brightness forgotten
BrightnessBaselineOnly(b, mapped, beat) ==
  Clamp(IF beat THEN HEARTBEAT_MAX ELSE mapped)
\* a flash to 100 % with no clamp after it
BrightnessFlashFull(b, mapped, beat) ==
  IF beat THEN 100 * BScale ELSE Max(Decay(b), mapped)
NextBrightness(b, mapped, beat) ==
  Clamp(IF beat THEN HEARTBEAT_MAX ELSE Max(Decay(b), mapped))

\* ------------------------------------------------------------------------
\* process_mp3_file: calibration pass (lines 319-341)
\* ------------------------------------------------------------------------
\* raw_data[i : i + n] on a sequence of samples, i counted from 0
Slice(raw, i, n) == SubSeq(raw, i + 1, Min(i + n, Len(raw)))

\* np.percentile(xs, q), linear interpolation between the order statistics
Percentile(xs, q) ==
  LET pos  == q * (Len(xs) - 1)
      k    == pos \div 100
      frac == pos % 100
      a    == Kth(xs, k + 1)
      b    == Kth(xs, Min(k + 2, Len(xs)))
  IN  a + ((b - a) * frac) \div 100

\* ------------------------------------------------------------------------
\* process_mp3_file: fade out (lines 408-414)
\* ------------------------------------------------------------------------
\* int(max(brightness_1, brightness_2)), in whole percent
FadeStart(b1, b2) == Max(b1, b2) \div BScale

\* range(start, -1, -5): is there a next value, and which
FadeHasNext(v) == v > -1

\* ------------------------------------------------------------------------
\* cleanup (lines 486-503)
\* ------------------------------------------------------------------------
ReleaseSteps == <<"pwm1.stop", "pwm2.stop", "GPIO.cleanup">>

\* the three try/except blocks in order: a step that fails is caught by its
\* own except clause and the next block runs
RECURSIVE CleanupFrom(_, _)
CleanupFrom(k, fails) ==
  IF k > Len(ReleaseSteps)
  THEN [attempted |-> {}, swallowed |-> {}, raised |-> FALSE]
  ELSE LET rest == CleanupFrom(k + 1, fails)
       IN  [attempted |-> {ReleaseSteps[k]} \cup rest.attempted,
            swallowed |-> (IF ReleaseSteps[k] \in fails THEN {ReleaseSteps[k]} ELSE {})
                            \cup rest.swallowed,
            raised    |-> rest.raised]

\* the same without the except clauses: the first failure leaves the method
RECURSIVE CleanupFromUnguarded(_, _)
CleanupFromUnguarded(k, fails) ==
  IF k > Len(ReleaseSteps)
  THEN [attempted |-> {}, swallowed |-> {}, raised |-> FALSE]
  ELSE IF ReleaseSteps[k] \in fails
       THEN [attempted |-> {ReleaseSteps[k]}, swallowed |-> {}, raised |-> TRUE]
       ELSE LET rest == CleanupFromUnguarded(k + 1, fails)
            IN  [attempted |-> {ReleaseSteps[k]} \cup rest.attempted,
                 swallowed |-> rest.swallowed,
                 raised    |-> rest.raised]

CleanupRunUnguarded(fails) == CleanupFromUnguarded(1, fails)
CleanupRun(fails) == CleanupFrom(1, fails)

\* ------------------------------------------------------------------------
\* State
\* ------------------------------------------------------------------------
VARIABLES
  \* AudioReactiveController fields (lines 151-156, 340-341)
  running, brightness_1, brightness_2, last_beat_time, energy_history,
  smoothed_energy,
  calibration,          \* "unset": audio_min/max_energy not set; "range"; "nan"
  audio_min_energy, audio_max_energy,
  \* the two PWM channels: the duty cycle last written to each
  pwm1, pwm2,
  driver,               \* "ok", or "broken": the next driver call raises
  \* main and process_mp3_file
  pc,                   \* position of the main thread
  mode,                 \* what sys.argv asks for
  loop, raw_data,       \* arguments of process_mp3_file
  i, loop_count,        \* chunk offset (in samples) and loop counter
  energies,             \* the list built by the calibration loop
  energy, is_beat,      \* locals of the chunk loop / results of the last calls
  mapped_brightness,    \* local of update_leds
  fade_brightness,      \* loop variable of the fade out
  playback,             \* the playback thread started last: "none",
                        \* "playing", "finished"
  alive,                \* the number of playback threads that are running
  pending,              \* exception propagating: "none", "Exception",
                        \* "KeyboardInterrupt"
  cleanup_called, released, release_failed, cleanup_raised,
  now, overhead,        \* time.time(), and the per-chunk processing time
  \* history kept for the properties
  calls,                \* calls made by a call harness
  beat_times,           \* the timestamps of the calls that returned True
  energy_log,           \* the energies given to detect_beat, in call order
  chunk_len, chunk_peak, prev_smoothed, \* last analyze_audio_chunk call
  prev_brightness_1, prev_brightness_2,
  after_beat, settled,
  chunks_done, chunks_allowed, passes, threads_started, fade_done,
  test_step             \* writes made by test_pattern

ctrlVars  == <<running, brightness_1, brightness_2, last_beat_time,
               energy_history, smoothed_energy>>
calVars   == <<calibration, audio_min_energy, audio_max_energy>>
pwmVars   == <<pwm1, pwm2>>
argVars   == <<mode, loop, raw_data, overhead>>
procVars  == <<i, loop_count, energies, fade_brightness, playback, alive,
               pending>>
cleanVars == <<cleanup_called, released, release_failed, cleanup_raised>>
beatHist  == <<beat_times, energy_log>>
anaHist   == <<chunk_len, chunk_peak, prev_smoothed>>
ledHist   == <<prev_brightness_1, prev_brightness_2, after_beat, settled>>
runHist   == <<chunks_done, chunks_allowed, passes, threads_started, fade_done>>

vars == <<ctrlVars, calVars, pwmVars, driver, pc, argVars, procVars, energy,
          is_beat, mapped_brightness, cleanVars, now, calls, beatHist,
          anaHist, ledHist, runHist, test_step>>

\* the clock when the program starts: any real clock is further than the
\* refractory window from last_beat_time = 0
Epoch == 4 * MIN_BEAT_INTERVAL

\* __init__ (lines 151-156, 182-183) and the locals before their first use
Constructed ==
  /\ running = FALSE
  /\ brightness_1 = 0 /\ brightness_2 = 0
  /\ last_beat_time = 0
  /\ energy_history = <<>>
  /\ smoothed_energy = 0
  /\ pwm1 = 0 /\ pwm2 = 0
  /\ i = 0 /\ loop_count = 0 /\ energies = <<>>
  /\ energy = 0 /\ is_beat = FALSE /\ mapped_brightness = 0
  /\ fade_brightness = 0
  /\ playback = "none" /\ alive = 0 /\ pending = "none"
  /\ cleanup_called = FALSE /\ released = {} /\ release_failed = {}
  /\ cleanup_raised = FALSE
  /\ now = Epoch
  /\ calls = 0
  /\ beat_times = <<>> /\ energy_log = <<>>
  /\ chunk_len = 0 /\ chunk_peak = 0 /\ prev_smoothed = 0
  /\ prev_brightness_1 = 0 /\ prev_brightness_2 = 0
  /\ after_beat = FALSE /\ settled = FALSE
  /\ chunks_done = 0 /\ chunks_allowed = -1 /\ passes = 0
  /\ threads_started = 0 /\ fade_done = FALSE
  /\ test_step = 0

\* ------------------------------------------------------------------------
\* The methods as state changes
\* ------------------------------------------------------------------------
\* detect_beat(energy) called at time current_time (lines 217-251)
detect_beat(e, current_time) ==
  LET h == PushHistory(energy_history, e)
      b == IsBeat(h, e, calibration, audio_max_energy, current_time,
                  last_beat_time)
  IN  /\ energy_history' = h
      /\ last_beat_time' = IF b THEN current_time ELSE last_beat_time
      /\ is_beat' = b
      /\ beat_times' = IF b THEN Append(beat_times, current_time)
                            ELSE beat_times
      /\ energy_log' = Append(energy_log, e)

\* update_leds with the flash of line 280 left out: a beat lights the first
\* channel only
update_leds_flash_left(e, beat) ==
  LET m == MappedBrightness(e, calibration, audio_min_energy, audio_max_energy)
  IN  /\ mapped_brightness' = m
      /\ brightness_1' = NextBrightness(brightness_1, m, beat)
      /\ brightness_2' = NextBrightness(brightness_2, m, FALSE)
      /\ IF driver = "ok"
         THEN pwm1' = brightness_1' /\ pwm2' = brightness_2'
         ELSE UNCHANGED pwmVars
      /\ prev_brightness_1' = brightness_1
      /\ prev_brightness_2' = brightness_2
      /\ after_beat' = (after_beat \/ beat)
      /\ settled' = IF beat THEN FALSE
                    ELSE (settled \/ (after_beat /\ brightness_1' = m))

\* update_leds(energy, is_beat) (lines 253-296); a broken driver raises at
\* the first ChangeDutyCycle, after both brightness fields are assigned
update_leds(e, beat) ==
  LET m == MappedBrightness(e, calibration, audio_min_energy, audio_max_energy)
  IN  /\ mapped_brightness' = m
      /\ brightness_1' = NextBrightness(brightness_1, m, beat)
      /\ brightness_2' = NextBrightness(brightness_2, m, beat)
      /\ IF driver = "ok"
         THEN pwm1' = brightness_1' /\ pwm2' = brightness_2'
         ELSE UNCHANGED pwmVars
      /\ prev_brightness_1' = brightness_1
      /\ prev_brightness_2' = brightness_2
      /\ after_beat' = (after_beat \/ beat)
      /\ settled' = IF beat THEN FALSE
                    ELSE (settled \/ (after_beat /\ brightness_1' = m))

\* the largest magnitude among the samples of a chunk (0 for silence)
PeakOf(c) ==
  IF c = <<>> THEN 0
  ELSE CHOOSE p \in {Max(c[j], -c[j]) : j \in 1..Len(c)} :
         \A j \in 1..Len(c) : Max(c[j], -c[j]) <= p

\* analyze_audio_chunk(chunk) (lines 188-215)
analyze_audio_chunk(c) ==
  LET r == AnalyzeResult(smoothed_energy, c)
  IN  /\ smoothed_energy' = r.smoothed
      /\ energy' = r.ret
      /\ chunk_len' = Len(c)
      /\ chunk_peak' = PeakOf(c)
      /\ prev_smoothed' = smoothed_energy

\* ------------------------------------------------------------------------
\* Call harness of detect_beat: any energies, any non-decreasing clock,
\* calibrated or not
\* ------------------------------------------------------------------------
BeatEnergies == {0, (3 * EScale) \div 4}
\* the clock advances between calls by exactly the refractory window (the
\* call must not fire) or by one microsecond more (it may)
BeatSteps    == {MIN_BEAT_INTERVAL, MIN_BEAT_INTERVAL + 1}

InitBeat ==
  /\ Constructed
  /\ pc = "harness" /\ driver = "ok"
  /\ mode = "none" /\ loop = FALSE /\ raw_data = <<>> /\ overhead = 0
  /\ \/ calibration = "unset" /\ audio_min_energy = 0 /\ audio_max_energy = 0
     \/ calibration = "range" /\ audio_min_energy = 0 /\ audio_max_energy = EScale

BeatCall ==
  /\ pc = "harness"
  /\ calls < MaxCalls
  /\ \E e \in BeatEnergies, dt \in BeatSteps :
       /\ now' = now + dt
       /\ energy' = e
       /\ detect_beat(e, now')
  /\ calls' = calls + 1
  /\ UNCHANGED <<running, brightness_1, brightness_2, smoothed_energy, calVars,
                 pwmVars, driver, pc, argVars, procVars, mapped_brightness,
                 cleanVars, anaHist, ledHist, runHist, test_step>>

SpecBeat == InitBeat /\ [][BeatCall]_vars

\* ------------------------------------------------------------------------
\* Call harness of update_leds: any energy in [0, 1], any beat flag, any
\* calibration state
\* ------------------------------------------------------------------------
LedEnergies == {0, EScale \div 4, EScale \div 2, EScale}

InitLeds ==
  /\ Constructed
  /\ pc = "harness" /\ driver = "ok"
  /\ mode = "none" /\ loop = FALSE /\ raw_data = <<>> /\ overhead = 0
  /\ \/ calibration = "unset" /\ audio_min_energy = 0 /\ audio_max_energy = 0
     \/ /\ calibration = "range"
        /\ audio_min_energy \in LedEnergies
        /\ audio_max_energy \in LedEnergies
        /\ audio_min_energy <= audio_max_energy
     \/ calibration = "nan" /\ audio_min_energy = 0 /\ audio_max_energy = 0

LedCall ==
  /\ pc = "harness"
  /\ \E e \in LedEnergies, beat \in BOOLEAN :
       /\ energy' = e
       /\ is_beat' = beat
       /\ update_leds(e, beat)
  /\ UNCHANGED <<running, last_beat_time, energy_history, smoothed_energy,
                 calVars, driver, pc, argVars, procVars, cleanVars, now, calls,
                 beatHist, anaHist, runHist, test_step>>

SpecLeds == InitLeds /\ [][LedCall]_vars

\* ------------------------------------------------------------------------
\* Call harness of analyze_audio_chunk: chunks of 0..MaxChunkLen samples
\* ------------------------------------------------------------------------
Samples == {-16000, 0, 3000}

ChunksOfLen(n) == [1..n -> Samples]
HarnessChunks  == UNION {ChunksOfLen(n) : n \in 0..MaxChunkLen}

InitAnalyze ==
  /\ Constructed
  /\ pc = "harness" /\ driver = "ok"
  /\ mode = "none" /\ loop = FALSE /\ raw_data = <<>> /\ overhead = 0
  /\ calibration = "unset" /\ audio_min_energy = 0 /\ audio_max_energy = 0

AnalyzeCall ==
  /\ pc = "harness"
  /\ calls < MaxAnalyzeCalls
  /\ \E c \in HarnessChunks : analyze_audio_chunk(c)
  /\ calls' = calls + 1
  /\ UNCHANGED <<running, brightness_1, brightness_2, last_beat_time,
                 energy_history, calVars, pwmVars, driver, pc, argVars,
                 procVars, is_beat, mapped_brightness, cleanVars, now, beatHist,
                 ledHist, runHist, test_step>>

SpecAnalyze == InitAnalyze /\ [][AnalyzeCall]_vars

\* ------------------------------------------------------------------------
\* The program: main (lines 510-560) on a track
\* ------------------------------------------------------------------------
Loud == 16000           \* a sample whose RMS saturates the energy at 1.0

\* k chunks of samples of amplitude a
Tone(k, a) == [j \in 1..(k * ChunkSamples) |-> a]

\* lead silent chunks, burst loud chunks, and a partial last chunk of tail
\* samples
ShortTrack(lead, burst, tail) ==
  Tone(lead, 0) \o Tone(burst, Loud) \o [j \in 1..tail |-> Loud]

ShortTracks ==
  {ShortTrack(lead, burst, tail) :
     lead \in {0, 1, MaxLead}, burst \in 0..MaxBurst, tail \in {0, ChunkSamples - 1}}

ProgramStart ==
  /\ Constructed
  /\ pc = "start" /\ driver = "ok"
  /\ calibration = "unset" /\ audio_min_energy = 0 /\ audio_max_energy = 0

Init ==
  /\ ProgramStart
  /\ overhead = 0
  /\ \/ mode \in {"test", "missing", "usage"} /\ loop = FALSE /\ raw_data = <<>>
     \/ mode = "file" /\ loop \in BOOLEAN /\ raw_data \in ShortTracks

\* __init__, lines 175-183: opening the driver and the two channels. The
\* call is outside the try of main (line 516): a driver error leaves main.
Construct ==
  /\ pc = "start"
  /\ IF driver = "ok"
     THEN pc' = "main" /\ UNCHANGED pending
     ELSE pc' = "exit" /\ pending' = "Exception"
  /\ UNCHANGED <<ctrlVars, calVars, pwmVars, driver, argVars, i, loop_count, energies,
                 fade_brightness, playback, alive, energy, is_beat, mapped_brightness,
                 cleanVars, now, calls, beatHist, anaHist, ledHist, runHist,
                 test_step>>

\* main, lines 522-552: what the arguments ask for
main_dispatch ==
  /\ pc = "main"
  /\ \E choice \in {"y", "n"} :
       pc' = CASE mode = "test"    -> "test"
               [] mode = "missing" -> "finally"
               [] mode = "file"    -> "load"
               [] OTHER            -> IF choice = "y" THEN "test" ELSE "finally"
  /\ UNCHANGED <<ctrlVars, calVars, pwmVars, driver, argVars, procVars, energy,
                 is_beat, mapped_brightness, cleanVars, now, calls, beatHist,
                 anaHist, ledHist, runHist, test_step>>

\* test_pattern, lines 428-483: the duty cycles written to the two channels,
\* in order; the pulse is given by its four quarter points
PulseBrightness(sine_twice) ==
  Max(MIN_BRIGHTNESS,
      Min(MAX_BRIGHTNESS,
          HEARTBEAT_MIN + ((sine_twice + 2) * (MAX_BRIGHTNESS - HEARTBEAT_MIN)) \div 4))

TestWrites ==
  << <<MAX_BRIGHTNESS, MAX_BRIGHTNESS>>,
     <<MAX_BRIGHTNESS, 0>>,
     <<0, MAX_BRIGHTNESS>>,
     <<MAX_BRIGHTNESS \div 2, MAX_BRIGHTNESS \div 2>>,
     <<PulseBrightness(0), PulseBrightness(0)>>,
     <<PulseBrightness(2), PulseBrightness(2)>>,
     <<PulseBrightness(0), PulseBrightness(0)>>,
     <<PulseBrightness(-2), PulseBrightness(-2)>>,
     <<0, 0>> >>

\* one write of test_pattern; a driver error is caught by main (line 554)
test_pattern ==
  /\ pc = "test"
  /\ IF driver # "ok"
     THEN pc' = "finally" /\ UNCHANGED <<pwmVars, test_step>>
     ELSE /\ pwm1' = TestWrites[test_step + 1][1]
          /\ pwm2' = TestWrites[test_step + 1][2]
          /\ test_step' = test_step + 1
          /\ pc' = IF test_step + 1 = Len(TestWrites) THEN "finally" ELSE "test"
  /\ UNCHANGED <<ctrlVars, calVars, driver, argVars, procVars, energy, is_beat,
                 mapped_brightness, cleanVars, now, calls, beatHist, anaHist,
                 ledHist, runHist>>

\* process_mp3_file, lines 305-317: decoding the file, which may fail
Load ==
  /\ pc = "load"
  /\ \E decoded \in BOOLEAN :
       pc' = IF decoded THEN "calibrate" ELSE "finally"
  /\ UNCHANGED <<ctrlVars, calVars, pwmVars, driver, argVars, procVars, energy,
                 is_beat, mapped_brightness, cleanVars, now, calls, beatHist,
                 anaHist, ledHist, runHist, test_step>>

\* process_mp3_file, lines 324-337: one turn of the calibration loop, which
\* ends at the end of the data or at a short chunk
CalibrateChunk ==
  /\ pc = "calibrate"
  /\ i < Len(raw_data)
  /\ Len(Slice(raw_data, i, ChunkSamples)) >= ChunkSamples
  /\ energies' = Append(energies, NormalizedEnergy(Slice(raw_data, i, ChunkSamples)))
  /\ i' = i + ChunkSamples
  /\ UNCHANGED <<ctrlVars, calVars, pwmVars, driver, pc, argVars, loop_count,
                 fade_brightness, playback, alive, pending, energy, is_beat,
                 mapped_brightness, cleanVars, now, calls, beatHist, anaHist,
                 ledHist, runHist, test_step>>

\* the end of the calibration loop with lines 340-341 left out
CalibrateSkipped ==
  /\ pc = "calibrate"
  /\ ~(i < Len(raw_data) /\ Len(Slice(raw_data, i, ChunkSamples)) >= ChunkSamples)
  /\ running' = TRUE
  /\ pc' = "thread"
  /\ UNCHANGED <<brightness_1, brightness_2, last_beat_time, energy_history,
                 smoothed_energy, calVars, pwmVars, driver, argVars, procVars,
                 energy, is_beat, mapped_brightness, cleanVars, now, calls,
                 beatHist, anaHist, ledHist, runHist, test_step>>

\* lines 339-354: the percentiles of the energies collected, then
\* running = True. np.percentile of an empty list either raises or returns
\* NaN, depending on the numpy version.
Calibrate ==
  /\ pc = "calibrate"
  /\ ~(i < Len(raw_data) /\ Len(Slice(raw_data, i, ChunkSamples)) >= ChunkSamples)
  /\ IF energies = <<>>
     THEN \E outcome \in {"raises", "nan"} :
            IF outcome = "raises"
            THEN /\ pc' = "finally"
                 /\ UNCHANGED <<calVars, running>>
            ELSE /\ calibration' = "nan"
                 /\ UNCHANGED <<audio_min_energy, audio_max_energy>>
                 /\ running' = TRUE
                 /\ pc' = "thread"
     ELSE /\ calibration' = "range"
          /\ audio_min_energy' = Percentile(energies, 5)
          /\ audio_max_energy' = Percentile(energies, 95)
          /\ running' = TRUE
          /\ pc' = "thread"
  /\ UNCHANGED <<brightness_1, brightness_2, last_beat_time, energy_history,
                 smoothed_energy, pwmVars, driver, argVars, procVars, energy,
                 is_beat, mapped_brightness, cleanVars, now, calls, beatHist,
                 anaHist, ledHist, runHist, test_step, energies>>

\* lines 358-367: the top of "while True": a playback thread is started
StartPlayback ==
  /\ pc = "thread"
  /\ passes < MaxLoops
  /\ playback' = "playing"
  /\ alive' = alive + 1
  /\ threads_started' = threads_started + 1
  /\ passes' = passes + 1
  /\ loop_count' = IF loop THEN loop_count + 1 ELSE loop_count
  /\ i' = 0
  /\ pc' = "chunk"
  /\ UNCHANGED <<ctrlVars, calVars, pwmVars, driver, argVars, fade_brightness,
                 energies, pending, energy, is_beat, mapped_brightness, cleanVars, now,
                 calls, beatHist, anaHist, ledHist, chunks_done, chunks_allowed,
                 fade_done, test_step>>

\* lines 369-376: is there another chunk to process
ChunkProceedsAnyway(run, raw, off) ==
  off < Len(raw) /\ Len(Slice(raw, off, ChunkSamples)) >= ChunkSamples
\* the loop head without the test of line 375
ChunkProceedsOnShort(run, raw, off) ==
  off < Len(raw) /\ run
ChunkProceeds(run, raw, off) ==
  off < Len(raw) /\ run /\ Len(Slice(raw, off, ChunkSamples)) >= ChunkSamples

ChunkTop ==
  /\ pc = "chunk"
  /\ pc' = IF ChunkProceeds(running, raw_data, i) THEN "body" ELSE "join"
  /\ UNCHANGED <<ctrlVars, calVars, pwmVars, driver, argVars, procVars, energy,
                 is_beat, mapped_brightness, cleanVars, now, calls, beatHist,
                 anaHist, ledHist, runHist, test_step>>

\* lines 378-396: one chunk is analysed and written to the channels, then
\* the pacing sleep; a driver error leaves the loop for the finally clause
ChunkBody ==
  /\ pc = "body"
  /\ analyze_audio_chunk(Slice(raw_data, i, ChunkSamples))
  /\ detect_beat(energy', now)
  /\ update_leds(energy', is_beat')
  /\ chunks_done' = chunks_done + 1
  /\ IF driver = "ok"
     THEN /\ now' = now + ChunkSleep + overhead
          /\ i' = i + ChunkSamples
          /\ pc' = "chunk"
          /\ UNCHANGED pending
     ELSE /\ pending' = "Exception"
          /\ pc' = "fadeout"
          /\ UNCHANGED <<now, i>>
  /\ UNCHANGED <<running, calVars, driver, argVars, loop_count, energies, fade_brightness,
                 playback, alive, cleanVars, calls, chunks_allowed, passes,
                 threads_started, fade_done, test_step>>

\* the playback thread (line 360) comes to the end of the audio
PlaybackEnds ==
  /\ playback = "playing"
  /\ playback' = "finished"
  /\ alive' = alive - 1
  /\ UNCHANGED <<ctrlVars, calVars, pwmVars, driver, pc, argVars, i, loop_count, energies,
                 fade_brightness, pending, energy, is_beat, mapped_brightness,
                 cleanVars, now, calls, beatHist, anaHist, ledHist, runHist,
                 test_step>>

\* the loop decision of lines 402-403 taken without the join of line 399
JoinWithoutWaiting ==
  /\ pc = "join"
  /\ pc' = IF ~loop \/ ~running THEN "fadeout" ELSE "thread"
  /\ UNCHANGED <<ctrlVars, calVars, pwmVars, driver, argVars, procVars, energy,
                 is_beat, mapped_brightness, cleanVars, now, calls, beatHist,
                 anaHist, ledHist, runHist, test_step>>

\* lines 398-403: wait for the playback thread, then loop or leave
Join ==
  /\ pc = "join"
  /\ playback = "finished"
  /\ pc' = IF ~loop \/ ~running THEN "fadeout" ELSE "thread"
  /\ UNCHANGED <<ctrlVars, calVars, pwmVars, driver, argVars, procVars, energy,
                 is_beat, mapped_brightness, cleanVars, now, calls, beatHist,
                 anaHist, ledHist, runHist, test_step>>

\* line 411: the finally clause is entered and the range is built
FadeBegin ==
  /\ pc = "fadeout"
  /\ fade_brightness' = FadeStart(brightness_1, brightness_2)
  /\ pc' = "fade"
  /\ UNCHANGED <<ctrlVars, calVars, pwmVars, driver, argVars, i, loop_count, energies,
                 playback, alive, pending, energy, is_beat, mapped_brightness,
                 cleanVars, now, calls, beatHist, anaHist, ledHist, runHist,
                 test_step>>

\* lines 411-414: one turn of the fade loop, or its end, where
\* process_mp3_file returns (an Exception on its way is caught by main, line
\* 554; a KeyboardInterrupt is not)
FadeStep ==
  /\ pc = "fade"
  /\ IF FadeHasNext(fade_brightness)
     THEN IF driver = "ok"
          THEN /\ pwm1' = fade_brightness * BScale
               /\ pwm2' = fade_brightness * BScale
               /\ now' = now + FADE_DELAY
               /\ fade_brightness' = fade_brightness - FADE_STEP
               /\ UNCHANGED <<pc, pending, fade_done>>
          ELSE /\ pc' = "finally"
               /\ pending' = "none"
               /\ UNCHANGED <<pwmVars, now, fade_brightness, fade_done>>
     ELSE /\ pc' = "finally"
          /\ fade_done' = TRUE
          /\ pending' = IF pending = "Exception" THEN "none" ELSE pending
          /\ UNCHANGED <<pwmVars, now, fade_brightness>>
  /\ UNCHANGED <<ctrlVars, calVars, driver, argVars, i, loop_count, energies, playback, alive,
                 energy, is_beat, mapped_brightness, cleanVars, calls, beatHist,
                 anaHist, ledHist, chunks_done, chunks_allowed, passes,
                 threads_started, test_step>>

\* cleanup, lines 486-503, called from the finally clause of main (line 560);
\* any of the three release steps may fail
cleanup ==
  /\ pc = "finally"
  /\ \E fails \in SUBSET Range(ReleaseSteps) :
       LET r == CleanupRun(fails)
       IN  /\ released' = r.attempted
           /\ release_failed' = fails
           /\ cleanup_raised' = r.raised
  /\ running' = FALSE
  /\ cleanup_called' = TRUE
  /\ pc' = "exit"
  /\ UNCHANGED <<brightness_1, brightness_2, last_beat_time, energy_history,
                 smoothed_energy, calVars, pwmVars, driver, argVars, procVars,
                 energy, is_beat, mapped_brightness, now, calls, beatHist,
                 anaHist, ledHist, runHist, test_step>>

\* Ctrl+C in the main thread, after start-up. Inside the try of
\* process_mp3_file it is caught (line 405) and the finally clause fades
\* out; anywhere else it travels to the finally clause of main.
Interrupt ==
  /\ pc \in {"main", "test", "load", "calibrate", "thread", "chunk", "body",
             "join", "fadeout", "fade"}
  /\ IF pc \in {"thread", "chunk", "body", "join"}
     THEN pc' = "fadeout" /\ UNCHANGED pending
     ELSE pc' = "finally" /\ pending' = "KeyboardInterrupt"
  /\ UNCHANGED <<ctrlVars, calVars, pwmVars, driver, argVars, i, loop_count, energies,
                 fade_brightness, playback, alive, energy, is_beat, mapped_brightness,
                 cleanVars, now, calls, beatHist, anaHist, ledHist, runHist,
                 test_step>>

\* the stop signal: something outside the control timeline sets running to
\* False while the chunks are processed
StopSignal ==
  /\ pc \in {"thread", "chunk", "body", "join"}
  /\ running
  /\ running' = FALSE
  /\ chunks_allowed' = IF pc = "body" THEN chunks_done + 1 ELSE chunks_done
  /\ UNCHANGED <<brightness_1, brightness_2, last_beat_time, energy_history,
                 smoothed_energy, calVars, pwmVars, driver, pc, argVars,
                 procVars, energy, is_beat, mapped_brightness, cleanVars, now,
                 calls, beatHist, anaHist, ledHist, chunks_done, passes,
                 threads_started, fade_done, test_step>>

\* the driver starts to fail: its next call raises
DriverFails ==
  /\ pc \in {"start", "test", "body", "fade"}
  /\ driver = "ok"
  /\ driver' = "broken"
  /\ UNCHANGED <<ctrlVars, calVars, pwmVars, pc, argVars, procVars, energy,
                 is_beat, mapped_brightness, cleanVars, now, calls, beatHist,
                 anaHist, ledHist, runHist, test_step>>

Next ==
  \/ Construct \/ main_dispatch \/ test_pattern
  \/ Load \/ CalibrateChunk \/ Calibrate \/ StartPlayback \/ ChunkTop \/ ChunkBody
  \/ PlaybackEnds \/ Join \/ FadeBegin \/ FadeStep
  \/ cleanup
  \/ Interrupt \/ StopSignal \/ DriverFails

Spec == Init /\ [][Next]_vars

\* ------------------------------------------------------------------------
\* The program on a 5 s track that is silent but for one loud burst of 2 or
\* 3 chunks, played once, with no interrupt, stop signal or driver fault
\* ------------------------------------------------------------------------
BurstTrackChunks == (5 * SAMPLE_RATE) \div CHUNK_SIZE

\* the complete chunks, and the samples left over after the last of them
BurstTrack(start, len, amp) ==
  Tone(start, 0) \o Tone(len, amp) \o Tone(BurstTrackChunks - start - len, 0)
    \o [j \in 1..(ChunkSamples - 1) |-> 0]

BurstTracks ==
  {BurstTrack(start, len, amp) :
     start \in {5, 60, 150}, len \in {2, 3}, amp \in {3000, Loud}}

InitBurst ==
  /\ ProgramStart
  /\ mode = "file" /\ loop = FALSE
  /\ raw_data \in BurstTracks
  /\ overhead \in {0, ChunkSleep \div 10}

NextBurst ==
  \/ Construct \/ main_dispatch
  \/ Load \/ CalibrateChunk \/ Calibrate \/ StartPlayback \/ ChunkTop \/ ChunkBody
  \/ PlaybackEnds \/ Join \/ FadeBegin \/ FadeStep
  \/ cleanup

SpecBurst == InitBurst /\ [][NextBurst]_vars

\* ------------------------------------------------------------------------
\* Properties
\* ------------------------------------------------------------------------
\* C1: any two detect_beat calls that return True have timestamps more than
\* MIN_BEAT_INTERVAL apart, and last_beat_time is written only by a call
\* that returns True (it is 0 until the first beat, the time of the latest
\* beat afterwards).
C1_BeatSpacing ==
  /\ \A j \in 1..Len(beat_times) : \A k \in 1..Len(beat_times) :
       j < k => beat_times[k] - beat_times[j] > MIN_BEAT_INTERVAL
  /\ last_beat_time = IF beat_times = <<>> THEN 0
                      ELSE beat_times[Len(beat_times)]

\* a beat has fired, and the next call meets the threshold exactly
\* MIN_BEAT_INTERVAL later and does not fire
C1_Witness ==
  /\ Len(beat_times) >= 1
  /\ calls > 0 /\ ~is_beat
  /\ now - last_beat_time = MIN_BEAT_INTERVAL
  /\ Len(energy_history) > HISTORY_MIN
  /\ ThresholdMet(energy_history, energy, calibration, audio_max_energy)

\* update_leds has run at least once (it leaves its baseline, which is at
\* least HEARTBEAT_MIN, in mapped_brightness)
LedsUpdated == mapped_brightness > 0

\* C2: after every update_leds call both brightness values lie in
\* [HEARTBEAT_MIN, HEARTBEAT_MAX] = [40, 97], whatever the energy, the beat
\* flag, the previous brightness and the calibration state.
C2_BrightnessInRange ==
  LedsUpdated =>
    /\ HEARTBEAT_MIN <= brightness_1 /\ brightness_1 <= HEARTBEAT_MAX
    /\ HEARTBEAT_MIN <= brightness_2 /\ brightness_2 <= HEARTBEAT_MAX

\* a call with energy 0 on a calibration with high = low, no beat, that
\* leaves the brightness strictly inside the range
C2_Witness ==
  /\ LedsUpdated /\ ~is_beat /\ energy = 0
  /\ calibration = "range" /\ audio_min_energy = audio_max_energy
  /\ HEARTBEAT_MIN < brightness_1 /\ brightness_1 < HEARTBEAT_MAX

\* C8: when update_leds is called with the beat flag set, both brightness
\* values equal HEARTBEAT_MAX (97) when it returns.
C8_BeatSnapsToCeiling ==
  (LedsUpdated /\ is_beat) =>
    /\ brightness_1 = HEARTBEAT_MAX
    /\ brightness_2 = HEARTBEAT_MAX

\* a beat on a chunk whose baseline and previous brightness are both below
\* the ceiling
C8_Witness ==
  /\ LedsUpdated /\ is_beat
  /\ mapped_brightness < HEARTBEAT_MAX
  /\ prev_brightness_1 < HEARTBEAT_MAX
  /\ brightness_1 = HEARTBEAT_MAX /\ brightness_2 = HEARTBEAT_MAX

\* C9 as claimed: after a beat, every non-beat chunk leaves each channel
\* strictly lower than the chunk before, until the brightness has reached the
\* mapped baseline; from then on it equals the baseline of the current chunk.
C9_DecayThenBaseline ==
  (after_beat /\ ~is_beat) =>
    /\ settled =>
         /\ brightness_1 = mapped_brightness
         /\ brightness_2 = mapped_brightness
    /\ ~settled =>
         /\ brightness_1 < prev_brightness_1
         /\ brightness_2 < prev_brightness_2

\* C9 as the code has it: after a beat, every non-beat chunk leaves each
\* channel either at the mapped baseline of that chunk or strictly lower than
\* the chunk before (at the decayed previous value), and never below that
\* baseline.
C9_DecayOrBaseline ==
  (after_beat /\ ~is_beat) =>
    /\ brightness_1 >= mapped_brightness
    /\ brightness_2 >= mapped_brightness
    /\ \/ brightness_1 = mapped_brightness
       \/ /\ brightness_1 < prev_brightness_1
          /\ brightness_1 = Decay(prev_brightness_1)
    /\ \/ brightness_2 = mapped_brightness
       \/ /\ brightness_2 < prev_brightness_2
          /\ brightness_2 = Decay(prev_brightness_2)

\* the chunk right after a beat: strictly lower than the ceiling and still
\* above the baseline
C9_Witness ==
  /\ after_beat /\ ~is_beat /\ ~settled
  /\ prev_brightness_1 = HEARTBEAT_MAX
  /\ brightness_1 < prev_brightness_1
  /\ brightness_1 > mapped_brightness

\* C10: analyze_audio_chunk on an empty chunk returns the previous smoothed
\* energy and leaves the smoothing state unchanged.
C10_EmptyChunkReturnsPrevious ==
  (calls > 0 /\ chunk_len = 0) =>
    /\ energy = prev_smoothed
    /\ smoothed_energy = prev_smoothed

\* C3: whenever the fade out of process_mp3_file has run to its end, it has
\* written to both channels duty cycles that step down by FADE_STEP from the
\* last-known brightness and the last duty cycle written to both is 0.
C3_FadeEndsAtZero ==
  /\ (pc = "fade" /\ fade_brightness < FadeStart(brightness_1, brightness_2)) =>
       /\ pwm1 = (fade_brightness + FADE_STEP) * BScale
       /\ pwm2 = (fade_brightness + FADE_STEP) * BScale
  /\ fade_done => (pwm1 = 0 /\ pwm2 = 0)

\* C4: on every exit path of the program, a driver failure while the
\* channels are opened included, cleanup is attempted before the program
\* terminates.
C4_CleanupOnEveryExit ==
  pc = "exit" => cleanup_called

\* C5: cleanup never raises: whichever of its three release steps fail, all
\* three are attempted, running is False afterwards and no error leaves it.
C5_CleanupNeverRaises ==
  cleanup_called =>
    /\ released = Range(ReleaseSteps)
    /\ release_failed \subseteq released
    /\ ~running
    /\ ~cleanup_raised

\* cleanup has run with all three release steps failing
C5_Witness ==
  /\ cleanup_called
  /\ release_failed = Range(ReleaseSteps)
  /\ released = Range(ReleaseSteps)

\* C6: once the stop signal has arrived during the chunk loop, at most the
\* chunk in progress is completed and no later chunk is analysed or written,
\* in this pass or a later one, and process_mp3_file does not return before
\* the fade out has run (no interrupt or driver error cutting it short).
C6_StopEndsProcessing ==
  chunks_allowed >= 0 =>
    /\ chunks_done <= chunks_allowed
    /\ (pc \in {"finally", "exit"} /\ pending = "none" /\ driver = "ok")
         => fade_done

\* the stop signal arrived in loop mode with complete chunks left at the
\* offset where the loop broke off; the program has faded out and left
C6_Witness ==
  /\ pc = "exit" /\ pending = "none" /\ driver = "ok"
  /\ loop /\ passes = 1
  /\ chunks_allowed >= 1 /\ chunks_done = chunks_allowed
  /\ ChunkProceedsAnyway(TRUE, raw_data, i)
  /\ fade_done

\* C7: on a 5 s track that is silent except for one burst of 2 to 3 loud
\* chunks, calibration followed by analyze_audio_chunk and detect_beat over
\* every chunk fires exactly one beat.
C7_SingleBurstSingleBeat ==
  (pc = "exit" /\ chunks_done = BurstTrackChunks) => Len(beat_times) = 1

\* C11: after any sequence of analyze_audio_chunk calls the value returned
\* and the stored smoothed_energy lie in [0, 1]; on an all-zero chunk the
\* smoothed energy does not grow, and it shrinks to at most 0.7 of its
\* previous value (strictly lower unless it is 0 already), so that it
\* converges to 0 over a run of such chunks.
C11_EnergyInUnitRange ==
  /\ 0 <= energy /\ energy <= EScale
  /\ 0 <= smoothed_energy /\ smoothed_energy <= EScale
  /\ (calls > 0 /\ chunk_len > 0 /\ chunk_peak = 0) =>
       /\ smoothed_energy <= prev_smoothed
       /\ SMOOTHING_DEN * smoothed_energy <= SMOOTHING_NUM * prev_smoothed
       /\ (prev_smoothed > 0 => smoothed_energy < prev_smoothed)

\* two all-zero chunks in a row after loud ones that took the smoothed
\* energy above 1/2: the energy has gone down and is not 0 yet
C11_Witness ==
  /\ calls = MaxAnalyzeCalls
  /\ chunk_len > 0 /\ chunk_peak = 0
  /\ 0 < smoothed_energy /\ smoothed_energy < prev_smoothed
  /\ 2 * prev_smoothed < EScale
  /\ 4 * prev_smoothed > EScale

\* C12: when the calibration loop has collected fewer than 10 energies, the
\* percentiles are not computed and the controller stays uncalibrated (no
\* audio_min_energy / audio_max_energy), so that the chunk loop runs on the
\* fallback paths of detect_beat and update_leds.
C12_FewChunksStayUncalibrated ==
  (pc \in {"thread", "chunk", "body", "join"} /\ Len(energies) < 10) =>
    calibration = "unset"

\* the complete chunks of the track all have zero energy
SilentTrack(raw) ==
  \A k \in 1..Len(raw) :
    (((k - 1) \div ChunkSamples) + 1) * ChunkSamples <= Len(raw) => raw[k] = 0

\* C13: on a track whose every complete chunk is silent, detect_beat never
\* returns True, whatever the length of the track and the number of passes.
C13_SilenceNeverBeats ==
  (mode = "file" /\ SilentTrack(raw_data)) =>
    /\ ~is_beat
    /\ beat_times = <<>>

\* a silent track of more than HISTORY_MIN chunks played twice in loop mode
\* to its end: the threshold test ran on every chunk after the tenth
C13_Witness ==
  /\ mode = "file" /\ SilentTrack(raw_data) /\ loop
  /\ pc = "exit" /\ passes = MaxLoops
  /\ chunks_done > 2 * HISTORY_MIN
  /\ Len(energy_history) > HISTORY_MIN
  /\ beat_times = <<>>

\* the midpoint of the brightness range, 68.5 %
Midpoint == (HEARTBEAT_MIN + HEARTBEAT_MAX) \div 2

\* C14: when the calibration has low = high, the baseline of update_leds is
\* the midpoint of the brightness range (68.5) for every energy, and on every
\* non-beat chunk the brightness is the decayed previous value floored at
\* that midpoint: never below it, and equal to it as soon as the decayed
\* value is not above it, where it then stays.
C14_ZeroRangeMapsToMidpoint ==
  (LedsUpdated /\ calibration = "range" /\ audio_min_energy = audio_max_energy) =>
    /\ mapped_brightness = Midpoint
    /\ ~is_beat =>
         /\ brightness_1 = Max(Decay(prev_brightness_1), Midpoint)
         /\ brightness_2 = Max(Decay(prev_brightness_2), Midpoint)
         /\ (prev_brightness_1 = Midpoint => brightness_1 = Midpoint)
         /\ (prev_brightness_2 = Midpoint => brightness_2 = Midpoint)

\* low = high = 0.5, a chunk of energy 1.0 without a beat some chunks after
\* a beat: the brightness has come down to the midpoint
C14_Witness ==
  /\ LedsUpdated /\ calibration = "range"
  /\ audio_min_energy = audio_max_energy /\ audio_min_energy = EScale \div 2
  /\ energy = EScale /\ ~is_beat /\ after_beat
  /\ prev_brightness_1 > Midpoint
  /\ brightness_1 = Midpoint /\ brightness_2 = Midpoint

\* C15: every duty cycle written to either channel (by the start of the
\* channels, update_leds, the fade out or the test pattern) lies in [0, 100]
\* and does not exceed MAX_BRIGHTNESS (97.5); pwm1 and pwm2 hold the value
\* last written.
C15_DutyCycleWithinCeiling ==
  /\ 0 <= pwm1 /\ pwm1 <= 100 * BScale /\ pwm1 <= MAX_BRIGHTNESS
  /\ 0 <= pwm2 /\ pwm2 <= 100 * BScale /\ pwm2 <= MAX_BRIGHTNESS

\* a beat has flashed both channels to 97 and the fade out has since
\* written its last value
C15_Witness ==
  /\ fade_done /\ beat_times # <<>>
  /\ brightness_1 = HEARTBEAT_MAX
  /\ pwm1 < FADE_STEP * BScale /\ pwm2 = pwm1

\* the positions of process_mp3_file from the start of playback to its return
PlaybackPositions == {"thread", "chunk", "body", "join", "fadeout", "fade"}

\* C16: when the first chunk of a track reaches detect_beat / update_leds the
\* calibration range has been computed from all complete chunks of the
\* track, and no step of the playback (any chunk, any pass, the fade out)
\* changes it afterwards.
C16_CalibrationBeforePlaybackAndFixed ==
  /\ [](chunks_done > 0 =>
          /\ calibration = "range"
          /\ Len(energies) = Len(raw_data) \div ChunkSamples
          /\ audio_min_energy = Percentile(energies, 5)
          /\ audio_max_energy = Percentile(energies, 95))
  /\ [][(pc \in PlaybackPositions) => (calVars' = calVars)]_vars

\* two passes over a track whose range is not empty, played to the end
C16_Witness ==
  /\ pc = "exit" /\ loop /\ passes = MaxLoops
  /\ calibration = "range" /\ audio_min_energy < audio_max_energy
  /\ chunks_done = MaxLoops * (Len(raw_data) \div ChunkSamples)
  /\ beat_times # <<>>

\* floor(track length / chunk length): the complete chunks of the track
CompleteChunks(raw) == Len(raw) \div ChunkSamples

\* C17: a last chunk shorter than the chunk size is discarded. The
\* calibration pass collects the energies of exactly the complete chunks, in
\* track order; a playback pass enters its body only at a chunk boundary with
\* a complete chunk ahead, has processed i / chunk size chunks of the pass
\* when it stands at offset i, and ends (unless stopped) after exactly the
\* complete chunks; analyze_audio_chunk is never given a short chunk.
C17_PartialChunkDiscarded ==
  /\ pc \in PlaybackPositions =>
       /\ Len(energies) = CompleteChunks(raw_data)
       /\ \A k \in 1..Len(energies) :
            energies[k] =
              NormalizedEnergy(Slice(raw_data, (k - 1) * ChunkSamples, ChunkSamples))
  /\ chunks_done > 0 => chunk_len = ChunkSamples
  /\ pc = "body" =>
       /\ i % ChunkSamples = 0
       /\ i + ChunkSamples <= Len(raw_data)
  /\ (pc \in {"chunk", "body", "join"} /\ running) =>
       chunks_done = (passes - 1) * CompleteChunks(raw_data) + i \div ChunkSamples
  /\ (pc = "join" /\ running) =>
       /\ i = CompleteChunks(raw_data) * ChunkSamples
       /\ chunks_done = passes * CompleteChunks(raw_data)

\* the second pass over a track that ends in a partial chunk has come to
\* its end
C17_Witness ==
  /\ pc = "join" /\ running /\ loop /\ passes = MaxLoops
  /\ Len(raw_data) % ChunkSamples # 0
  /\ CompleteChunks(raw_data) > HISTORY_MIN
  /\ chunks_done = MaxLoops * CompleteChunks(raw_data)
  /\ i < Len(raw_data)

\* C18: after n detect_beat calls energy_history holds the last min(n, 50)
\* energies in call order: it never has more than 50 entries and on overflow
\* the oldest one is dropped.
C18_HistoryIsLastFifty ==
  LET n == Len(energy_log)
  IN  /\ Len(energy_history) = Min(n, HISTORY_LEN)
      /\ energy_history = SubSeq(energy_log, n - Min(n, HISTORY_LEN) + 1, n)

\* the history is full and the sample evicted by the last call was louder
\* than the one that is now the oldest, which is not silent either
C18_Witness ==
  /\ Len(energy_log) > HISTORY_LEN
  /\ Len(energy_history) = HISTORY_LEN
  /\ energy_history[1] > 0
  /\ energy_log[Len(energy_log) - HISTORY_LEN] > energy_history[1]

\* C19: a beat fires only when the history holds more than 10 samples (so
\* never with fewer than 10), the energy is greater than 1.15 x the median of
\* the history and, in calibrated mode, the energy is greater than
\* 0.5 x audio_max_energy.
C19_BeatNeedsThresholdAndHistory ==
  is_beat =>
    /\ Len(energy_history) > HISTORY_MIN
    /\ energy * 200 > Median2(energy_history) * BEAT_THRESHOLD
    /\ calibration = "range" => 2 * energy > audio_max_energy
    /\ calibration # "nan"

\* a chunk above 1.15 x the median, outside the refractory window and with
\* more than 10 samples of history, kept from firing by the calibrated
\* guard alone
C19_Witness ==
  /\ chunks_done > 0 /\ ~is_beat
  /\ calibration = "range"
  /\ Len(energy_history) > HISTORY_MIN
  /\ energy * 200 > Median2(energy_history) * BEAT_THRESHOLD
  /\ 2 * energy <= audio_max_energy
  /\ beat_times = <<>>

\* C20: after every non-beat update_leds call each brightness equals
\* max(previous brightness x 0.88, mapped baseline) clamped to [40, 97],
\* the baseline being the one mapped from the energy of that call, and so
\* is never below that baseline.
C20_NonBeatIsMaxOfDecayAndBaseline ==
  (LedsUpdated /\ ~is_beat) =>
    /\ mapped_brightness =
         MappedBrightness(energy, calibration, audio_min_energy, audio_max_energy)
    /\ brightness_1 = Clamp(Max(Decay(prev_brightness_1), mapped_brightness))
    /\ brightness_2 = Clamp(Max(Decay(prev_brightness_2), mapped_brightness))
    /\ brightness_1 >= mapped_brightness
    /\ brightness_2 >= mapped_brightness

\* a non-beat call with a baseline above the floor where the decayed
\* previous brightness is still the larger of the two
C20_Witness ==
  /\ LedsUpdated /\ ~is_beat
  /\ mapped_brightness > HEARTBEAT_MIN
  /\ Decay(prev_brightness_1) > mapped_brightness
  /\ brightness_1 = Decay(prev_brightness_1)
  /\ brightness_2 = brightness_1

C22_OnePlaybackJoinedAtEndOfPass ==
  /\ [](alive <= 1)
  /\ [](pc = "join" =>
          (~running \/ i >= CompleteChunks(raw_data) * ChunkSamples))
  /\ [][(threads_started' > threads_started) =>
           (playback \in {"none", "finished"} /\ alive = 0)]_vars
  /\ [][(playback = "playing" /\ playback' = "finished") =>
           (<<energy_history, last_beat_time, brightness_1, brightness_2,
              pwm1, pwm2>>' =
            <<energy_history, last_beat_time, brightness_1, brightness_2,
              pwm1, pwm2>>)]_vars

\* the second pass of a looped track is under way: its playback thread is
\* the only one alive, the first one having ended
C22_Witness ==
  /\ loop /\ passes = MaxLoops /\ threads_started = MaxLoops
  /\ pc = "body" /\ i > 0
  /\ playback = "playing" /\ alive = 1

====
